---- MODULE Spec2Model ----
(***************************************************************************)
(* MiniExpress (src/project/server.py) and its demo application            *)
(* (src/project/app.py) as a state machine.                                *)
(*                                                                         *)
(* Text is a sequence of one-character strings, bytes are a sequence of    *)
(* numbers.  The socket's output is kept as the list of send emissions,    *)
(* each the list of the sendall calls that succeeded.                      *)
(***************************************************************************)
EXTENDS Integers, Sequences, FiniteSets, TLC

(***************************************************************************)
(* Bounds of the model.                                                    *)
(***************************************************************************)
\* connections the listener accepts in SpecConc
MaxConns == 2
\* add_route calls before listen
MaxRoutes == 2
\* use_static calls before listen
MaxStatic == 1
\* status/set_header/send/json calls one handler run makes
MaxHandlerOps == 2
\* sendall calls that succeed before a failing one
MaxWritten == 1
\* segments of the templates and paths of SpecMatch
MaxSegments == 2

(***************************************************************************)
(* str methods used by the server.                                         *)
(***************************************************************************)
Whitespace == {" ", "\t", "\r", "\n"}

Last(s) == s[Len(s)]

Front(s) == SubSeq(s, 1, Len(s) - 1)

\* s.startswith(p)
StartsWith(s, p) == Len(p) <= Len(s) /\ SubSeq(s, 1, Len(p)) = p

\* s.endswith(p)
EndsWith(s, p) == Len(p) <= Len(s) /\ SubSeq(s, Len(s) - Len(p) + 1, Len(s)) = p

\* s.lstrip(chars)
RECURSIVE LStrip(_, _)
LStrip(s, chars) ==
    IF s # <<>> /\ Head(s) \in chars THEN LStrip(Tail(s), chars) ELSE s

\* s.rstrip(chars)
RECURSIVE RStrip(_, _)
RStrip(s, chars) ==
    IF s # <<>> /\ Last(s) \in chars THEN RStrip(Front(s), chars) ELSE s

\* s.strip(chars); s.strip() is Strip(s, Whitespace)
Strip(s, chars) == RStrip(LStrip(s, chars), chars)

\* index of the first ch in s, 0 when there is none
RECURSIVE IndexOf(_, _, _)
IndexOf(s, ch, i) ==
    IF i > Len(s) THEN 0
    ELSE IF s[i] = ch THEN i
    ELSE IndexOf(s, ch, i + 1)

\* ch in s
Contains(s, ch) == IndexOf(s, ch, 1) # 0

\* s.split(ch): every piece, empty ones included
RECURSIVE SplitOn(_, _)
SplitOn(s, ch) ==
    LET i == IndexOf(s, ch, 1)
    IN  IF i = 0 THEN <<s>>
        ELSE <<SubSeq(s, 1, i - 1)>> \o SplitOn(SubSeq(s, i + 1, Len(s)), ch)

\* s.split(ch, 1) of a string that contains ch
SplitFirst(s, ch) ==
    LET i == IndexOf(s, ch, 1)
    IN  <<SubSeq(s, 1, i - 1), SubSeq(s, i + 1, Len(s))>>

\* s.split(): the maximal runs of non-whitespace characters
RECURSIVE SplitWS(_, _)
SplitWS(s, cur) ==
    IF s = <<>> THEN (IF cur = <<>> THEN <<>> ELSE <<cur>>)
    ELSE IF Head(s) \in Whitespace
         THEN (IF cur = <<>> THEN <<>> ELSE <<cur>>) \o SplitWS(Tail(s), <<>>)
         ELSE SplitWS(Tail(s), Append(cur, Head(s)))

(***************************************************************************)
(* add_route: the template compiled to a regular expression, kept as its   *)
(* token list.  "^" is implied by re.match.                                *)
(***************************************************************************)
Lit(ch) == [t |-> "lit", c |-> ch, name |-> <<>>]

\* (?P<name>[^/]+)
Group(n) == [t |-> "group", c |-> "", name |-> n]

\* /?
OptSlash == [t |-> "optslash", c |-> "", name |-> <<>>]

\* $
EndAnchor == [t |-> "end", c |-> "", name |-> <<>>]

\* re.escape(part): every character stands for itself
RECURSIVE Escape(_)
Escape(part) ==
    IF part = <<>> THEN <<>> ELSE <<Lit(Head(part))>> \o Escape(Tail(part))

\* the loop of add_route over the template's parts
RECURSIVE CompileParts(_)
CompileParts(parts) ==
    IF parts = <<>> THEN <<>>
    ELSE LET part == Head(parts)
         IN  (IF StartsWith(part, <<":">>)
              THEN <<Lit("/"), Group(Tail(part))>>
              ELSE <<Lit("/")>> \o Escape(part))
             \o CompileParts(Tail(parts))

\* a pattern without the optional slash before the end
CompileTemplateNoSlash(path) ==
    IF path = <<"/">> THEN <<Lit("/"), EndAnchor>>
    ELSE CompileParts(SplitOn(Strip(path, {"/"}), "/")) \o <<EndAnchor>>

\* the pattern add_route builds for a template
CompileTemplate(path) ==
    IF path = <<"/">> THEN <<Lit("/"), EndAnchor>>
    ELSE CompileParts(SplitOn(Strip(path, {"/"}), "/")) \o <<OptSlash, EndAnchor>>

(***************************************************************************)
(* regex.match: a backtracking matcher over the token list.  The result is *)
(* [ok, groups], groups being the list of <<name, text>> of groupdict().   *)
(***************************************************************************)
NoMatch == [ok |-> FALSE, groups |-> <<>>]

\* the longest run of non-slash characters of s from position j
RECURSIVE RunLen(_, _)
RunLen(s, j) == IF j > Len(s) \/ s[j] = "/" THEN 0 ELSE 1 + RunLen(s, j + 1)

RECURSIVE MatchFrom(_, _, _, _, _)
RECURSIVE MatchGroup(_, _, _, _, _, _)
MatchFrom(pat, i, s, j, groups) ==
    IF i > Len(pat) THEN [ok |-> TRUE, groups |-> groups]
    ELSE LET tok == pat[i]
         IN  CASE tok.t = "lit" ->
                    IF j <= Len(s) /\ s[j] = tok.c
                    THEN MatchFrom(pat, i + 1, s, j + 1, groups)
                    ELSE NoMatch
               [] tok.t = "optslash" ->
                    \* greedy: take the slash first, then try without it
                    LET with == IF j <= Len(s) /\ s[j] = "/"
                                THEN MatchFrom(pat, i + 1, s, j + 1, groups)
                                ELSE NoMatch
                    IN  IF with.ok THEN with
                        ELSE MatchFrom(pat, i + 1, s, j, groups)
               [] tok.t = "end" ->
                    \* $ matches at the end and before a final newline
                    IF j = Len(s) + 1 \/ (j = Len(s) /\ s[j] = "\n")
                    THEN MatchFrom(pat, i + 1, s, j, groups)
                    ELSE NoMatch
               [] tok.t = "group" ->
                    MatchGroup(pat, i, s, j, groups, RunLen(s, j))

\* [^/]+ is greedy: the longest run first, then shorter ones, at least one
MatchGroup(pat, i, s, j, groups, k) ==
    IF k < 1 THEN NoMatch
    ELSE LET r == MatchFrom(pat, i + 1, s, j + k,
                            Append(groups, <<pat[i].name, SubSeq(s, j, j + k - 1)>>))
         IN  IF r.ok THEN r ELSE MatchGroup(pat, i, s, j, groups, k - 1)

\* regex.match(path)
RegexMatch(pat, s) == MatchFrom(pat, 1, s, 1, <<>>)

(***************************************************************************)
(* String literals of the source, as text.                                 *)
(***************************************************************************)
GET ==
    <<"G", "E", "T">>

POST ==
    <<"P", "O", "S", "T">>

OPTIONS ==
    <<"O", "P", "T", "I", "O", "N", "S">>

HTTP11 ==
    <<"H", "T", "T", "P", "/", "1", ".", "1">>

CONTENT_TYPE ==
    <<"C", "o", "n", "t", "e", "n", "t", "-", "T", "y", "p", "e">>

CONTENT_LENGTH ==
    <<"C", "o", "n", "t", "e", "n", "t", "-", "L", "e", "n", "g", "t", "h">>

APPLICATION_JSON ==
    <<"a", "p", "p", "l", "i", "c", "a", "t", "i", "o", "n", "/", "j", "s",
      "o", "n">>

FORM_URLENCODED ==
    <<"a", "p", "p", "l", "i", "c", "a", "t", "i", "o", "n", "/", "x", "-",
      "w", "w", "w", "-", "f", "o", "r", "m", "-", "u", "r", "l", "e", "n",
      "c", "o", "d", "e", "d">>

TEXT_PLAIN ==
    <<"t", "e", "x", "t", "/", "p", "l", "a", "i", "n", ";", " ", "c", "h",
      "a", "r", "s", "e", "t", "=", "u", "t", "f", "-", "8">>

JSON_UTF8 ==
    <<"a", "p", "p", "l", "i", "c", "a", "t", "i", "o", "n", "/", "j", "s",
      "o", "n", ";", " ", "c", "h", "a", "r", "s", "e", "t", "=", "u", "t",
      "f", "-", "8">>

OCTET_STREAM ==
    <<"a", "p", "p", "l", "i", "c", "a", "t", "i", "o", "n", "/", "o", "c",
      "t", "e", "t", "-", "s", "t", "r", "e", "a", "m">>

TEXT_HTML ==
    <<"t", "e", "x", "t", "/", "h", "t", "m", "l">>

STAR ==
    <<"*">>

CLOSE ==
    <<"c", "l", "o", "s", "e">>

ALLOW_METHODS ==
    <<"G", "E", "T", ",", "P", "O", "S", "T", ",", "P", "U", "T", ",", "D",
      "E", "L", "E", "T", "E", ",", "O", "P", "T", "I", "O", "N", "S">>

NOT_FOUND ==
    <<"N", "o", "t", " ", "F", "o", "u", "n", "d">>

INTERNAL_SERVER_ERROR ==
    <<"I", "n", "t", "e", "r", "n", "a", "l", " ", "S", "e", "r", "v", "e",
      "r", " ", "E", "r", "r", "o", "r">>

ERROR_READING ==
    <<"E", "r", "r", "o", "r", " ", "r", "e", "a", "d", "i", "n", "g", " ",
      "s", "t", "a", "t", "i", "c", " ", "f", "i", "l", "e", ":", " ">>

INDEX_HTML ==
    <<"i", "n", "d", "e", "x", ".", "h", "t", "m", "l">>

DOT_HTML ==
    <<".", "h", "t", "m", "l">>

\* the characters of three ASCII runs, in code order
Digits ==
    <<"0", "1", "2", "3", "4", "5", "6", "7", "8", "9">>

UpperCase ==
    <<"A", "B", "C", "D", "E", "F", "G", "H", "I", "J", "K", "L", "M", "N",
      "O", "P", "Q", "R", "S", "T", "U", "V", "W", "X", "Y", "Z">>

LowerCase ==
    <<"a", "b", "c", "d", "e", "f", "g", "h", "i", "j", "k", "l", "m", "n",
      "o", "p", "q", "r", "s", "t", "u", "v", "w", "x", "y", "z">>

CONNECTION ==
    <<"C", "o", "n", "n", "e", "c", "t", "i", "o", "n">>

ALLOW_ORIGIN ==
    <<"A", "c", "c", "e", "s", "s", "-", "C", "o", "n", "t", "r", "o", "l",
      "-", "A", "l", "l", "o", "w", "-", "O", "r", "i", "g", "i", "n">>

ALLOW_METHODS_NAME ==
    <<"A", "c", "c", "e", "s", "s", "-", "C", "o", "n", "t", "r", "o", "l",
      "-", "A", "l", "l", "o", "w", "-", "M", "e", "t", "h", "o", "d", "s">>

ALLOW_HEADERS_NAME ==
    <<"A", "c", "c", "e", "s", "s", "-", "C", "o", "n", "t", "r", "o", "l",
      "-", "A", "l", "l", "o", "w", "-", "H", "e", "a", "d", "e", "r", "s">>

(***************************************************************************)
(* str.encode('utf-8') and str(int).                                       *)
(***************************************************************************)
\* the code point of a character; a character outside ASCII is written
\* "U+00E9" (two bytes in UTF-8) or "U+20AC" (three bytes)
CodePoint(ch) ==
    CASE Contains(Digits, ch) -> 47 + IndexOf(Digits, ch, 1)
      [] Contains(UpperCase, ch) -> 64 + IndexOf(UpperCase, ch, 1)
      [] Contains(LowerCase, ch) -> 96 + IndexOf(LowerCase, ch, 1)
      [] ch = "\t" -> 9
      [] ch = "\n" -> 10
      [] ch = "\r" -> 13
      [] ch = " " -> 32
      [] ch = "!" -> 33
      [] ch = "\"" -> 34
      [] ch = "&" -> 38
      [] ch = "(" -> 40
      [] ch = ")" -> 41
      [] ch = "*" -> 42
      [] ch = "+" -> 43
      [] ch = "," -> 44
      [] ch = "-" -> 45
      [] ch = "." -> 46
      [] ch = "/" -> 47
      [] ch = ":" -> 58
      [] ch = ";" -> 59
      [] ch = "<" -> 60
      [] ch = "=" -> 61
      [] ch = ">" -> 62
      [] ch = "?" -> 63
      [] ch = "[" -> 91
      [] ch = "]" -> 93
      [] ch = "{" -> 123
      [] ch = "}" -> 125
      [] ch = "U+00E9" -> 233
      [] ch = "U+20AC" -> 8364

\* the UTF-8 bytes of one code point below 65536
Utf8Char(cp) ==
    IF cp < 128 THEN <<cp>>
    ELSE IF cp < 2048 THEN <<192 + (cp \div 64), 128 + (cp % 64)>>
    ELSE <<224 + (cp \div 4096), 128 + ((cp \div 64) % 64), 128 + (cp % 64)>>

\* s.encode('utf-8')
RECURSIVE Utf8(_)
Utf8(s) == IF s = <<>> THEN <<>> ELSE Utf8Char(CodePoint(Head(s))) \o Utf8(Tail(s))

\* str(n) of a natural number
RECURSIVE IntToStr(_)
IntToStr(n) ==
    IF n < 10 THEN <<Digits[n + 1]>>
    ELSE IntToStr(n \div 10) \o <<Digits[(n % 10) + 1]>>

(***************************************************************************)
(* Response.                                                               *)
(***************************************************************************)
\* Response.__init__
NewResponse ==
    [status_code |-> 200, status_text |-> "OK", headers |-> <<>>, sent |-> FALSE]

\* the reason phrases of Response.status
StatusText(code) ==
    CASE code = 200 -> "OK"
      [] code = 201 -> "Created"
      [] code = 202 -> "Accepted"
      [] code = 204 -> "No Content"
      [] code = 301 -> "Moved Permanently"
      [] code = 302 -> "Found"
      [] code = 400 -> "Bad Request"
      [] code = 401 -> "Unauthorized"
      [] code = 403 -> "Forbidden"
      [] code = 404 -> "Not Found"
      [] code = 500 -> "Internal Server Error"
      [] OTHER -> ""

\* Response.status
Status(r, code) ==
    [r EXCEPT !.status_code = code, !.status_text = StatusText(code)]

\* name in headers, for a dict kept as the list of its <<name, value>> items
HasKey(h, name) == \E i \in 1..Len(h) : h[i][1] = name

\* headers[name] of a dict that has the key
Lookup(h, name) == h[CHOOSE i \in 1..Len(h) : h[i][1] = name][2]

\* headers[name] = value: a present key keeps its place, a new one goes last
DictSet(h, name, value) ==
    IF HasKey(h, name)
    THEN [i \in 1..Len(h) |-> IF h[i][1] = name THEN <<name, value>> ELSE h[i]]
    ELSE Append(h, <<name, value>>)

\* Response.set_header
SetHeader(r, name, value) == [r EXCEPT !.headers = DictSet(r.headers, name, value)]

\* what a handler passes to send
NoData == [kind |-> "none", v |-> <<>>]

BytesData(b) == [kind |-> "bytes", v |-> b]

TextData(s) == [kind |-> "text", v |-> s]

\* a str that utf-8 cannot encode (a lone surrogate)
Unencodable == [kind |-> "unencodable", v |-> <<>>]

\* the conversion of data to body_bytes
BodyBytes(data) ==
    CASE data.kind = "none" -> <<>>
      [] data.kind = "bytes" -> data.v
      [] data.kind = "text" -> Utf8(data.v)

\* the Content-Length value send computes
ContentLengthOf(body_bytes) == IntToStr(Len(body_bytes))

\* a default header: set only when the name is absent
Default(h, name, value) == IF HasKey(h, name) THEN h ELSE DictSet(h, name, value)

\* send that keeps a Connection or Content-Length the handler set
SendHeadersKeep(h, body_bytes) ==
    Default(Default(Default(Default(h, CONTENT_TYPE, TEXT_PLAIN), ALLOW_ORIGIN, STAR),
                    CONNECTION, CLOSE),
            CONTENT_LENGTH, ContentLengthOf(body_bytes))

\* the headers of the response after send's defaults and forced headers
SendHeaders(h, body_bytes) ==
    DictSet(DictSet(Default(Default(h, CONTENT_TYPE, TEXT_PLAIN), ALLOW_ORIGIN, STAR),
                    CONNECTION, CLOSE),
            CONTENT_LENGTH, ContentLengthOf(body_bytes))

\* one sendall call of send
StatusChunk(code, text) ==
    [k |-> "status", code |-> code, text |-> text, name |-> <<>>, value |-> <<>>]

HeaderChunk(name, value) ==
    [k |-> "header", code |-> 0, text |-> "", name |-> name, value |-> value]

BlankChunk == [k |-> "blank", code |-> 0, text |-> "", name |-> <<>>, value |-> <<>>]

BodyChunk(b) == [k |-> "body", code |-> 0, text |-> "", name |-> <<>>, value |-> b]

\* the sendall calls of send, in order
SendChunks(r, h, body_bytes) ==
    <<StatusChunk(r.status_code, r.status_text)>>
    \o [i \in 1..Len(h) |-> HeaderChunk(h[i][1], h[i][2])]
    \o <<BlankChunk>>
    \o (IF body_bytes # <<>> THEN <<BodyChunk(body_bytes)>> ELSE <<>>)

\* how the socket takes the writes of one send: all of them, or w.n of them
\* and then BrokenPipeError or another OSError
WriteOk == [kind |-> "ok", n |-> 0]

WriteOutcomes ==
    {WriteOk} \cup [kind : {"BrokenPipeError", "OSError"}, n : 0..MaxWritten]

\* send without its guard
NeverSent(r) == FALSE

\* the guard of send
AlreadySent(r) == r.sent

\* a send that wrote nothing
NotSent(r, e) ==
    [res |-> r, emitted |-> FALSE, body |-> <<>>, chunks |-> <<>>,
     complete |-> FALSE, exc |-> e]

\* the sendall calls that succeed, of n calls
Written(n, w) ==
    IF w.kind = "ok" THEN n ELSE IF w.n < n THEN w.n ELSE n - 1

\* the try block of send over its sendall calls, and the finally clause
SendAll(r, h, body_bytes, all, w) ==
    [res |-> [r EXCEPT !.headers = h, !.sent = TRUE],
     emitted |-> TRUE,
     body |-> body_bytes,
     chunks |-> SubSeq(all, 1, Written(Len(all), w)),
     complete |-> (w.kind = "ok"),
     exc |-> IF w.kind = "OSError" THEN "OSError" ELSE "none"]

\* send once the headers are set (CHOOSE s \in {F(x) : x \in {e}} : TRUE is
\* F(e), with e computed once)
SendWith(r, h, body_bytes, w) ==
    CHOOSE s \in {SendAll(r, h, body_bytes, all, w) :
                     all \in {SendChunks(r, h, body_bytes)}} : TRUE

\* send once data is converted
SendBody(r, body_bytes, w) ==
    CHOOSE s \in {SendWith(r, h, body_bytes, w) :
                     h \in {SendHeaders(r.headers, body_bytes)}} : TRUE

\* Response.send: the response afterwards, whether it began to write, the
\* sendall calls that succeeded, and the exception that leaves send
Send(r, data, w) ==
    IF AlreadySent(r) THEN NotSent(r, "none")
    ELSE IF data.kind = "unencodable" THEN NotSent(r, "UnicodeEncodeError")
    ELSE CHOOSE s \in {SendBody(r, b, w) : b \in {BodyBytes(data)}} : TRUE

\* what a handler passes to json: a dict, or an object json.dumps rejects
EmptyDict == [kind |-> "dict"]

SetObject == [kind |-> "set"]

\* json.dumps(obj), and str(obj) when it raises
JsonBody(obj) ==
    CASE obj.kind = "dict" -> <<"{", "}">>
      [] obj.kind = "set" -> <<"s", "e", "t", "(", ")">>
      [] obj.kind = "id" ->
            <<"{", "\"", "i", "d", "\"", ":", " ">> \o IntToStr(obj.id) \o <<"}">>

\* Response.json
Json(r, obj, w) ==
    Send(SetHeader(r, CONTENT_TYPE, JSON_UTF8), TextData(JsonBody(obj)), w)

(***************************************************************************)
(* The file system the server runs in: os.path.join, os.path.isdir, open   *)
(* and mimetypes.guess_type.  A node is the list of names from the root;   *)
(* the process runs in /app, app.py and ./static live there.               *)
(***************************************************************************)
APP ==
    <<"a", "p", "p">>

APP_PY ==
    <<"a", "p", "p", ".", "p", "y">>

STATIC ==
    <<"s", "t", "a", "t", "i", "c">>

A_TXT ==
    <<"a", ".", "t", "x", "t">>

LOCKED ==
    <<"l", "o", "c", "k", "e", "d">>

EMPTY ==
    <<"e", "m", "p", "t", "y">>

STATIC_DIR ==
    <<".", "/", "s", "t", "a", "t", "i", "c">>

HELLO ==
    <<"h", "e", "l", "l", "o">>

HTML_BODY ==
    <<"<", "p", ">">>

SOURCE_BODY ==
    <<"i", "m", "p", "o", "r", "t">>

Cwd == <<APP>>

\* kind: "dir" or "file"; a file that is not readable raises PermissionError
FileSystem ==
    { [node |-> <<>>, kind |-> "dir", readable |-> TRUE, content |-> <<>>],
      [node |-> <<APP>>, kind |-> "dir", readable |-> TRUE, content |-> <<>>],
      [node |-> <<APP, APP_PY>>, kind |-> "file", readable |-> TRUE,
       content |-> SOURCE_BODY],
      [node |-> <<APP, STATIC>>, kind |-> "dir", readable |-> TRUE,
       content |-> <<>>],
      [node |-> <<APP, STATIC, INDEX_HTML>>, kind |-> "file", readable |-> TRUE,
       content |-> HTML_BODY],
      [node |-> <<APP, STATIC, A_TXT>>, kind |-> "file", readable |-> TRUE,
       content |-> HELLO],
      [node |-> <<APP, STATIC, LOCKED>>, kind |-> "file", readable |-> FALSE,
       content |-> <<>>],
      [node |-> <<APP, STATIC, EMPTY>>, kind |-> "dir", readable |-> TRUE,
       content |-> <<>>] }

Exists(node) == \E f \in FileSystem : f.node = node

Entry(node) == CHOOSE f \in FileSystem : f.node = node

\* path resolution: ENOENT for a missing name, ENOTDIR for a name looked up
\* in something that is not a directory
RECURSIVE Walk(_, _)
Walk(cur, segs) ==
    IF segs = <<>> THEN [err |-> "ok", node |-> cur]
    ELSE IF Entry(cur).kind # "dir" THEN [err |-> "ENOTDIR", node |-> cur]
    ELSE LET seg == Head(segs)
         IN  IF seg = <<>> \/ seg = <<".">> THEN Walk(cur, Tail(segs))
             ELSE IF seg = <<".", ".">>
                  THEN Walk(IF cur = <<>> THEN cur ELSE Front(cur), Tail(segs))
             ELSE IF Exists(Append(cur, seg)) THEN Walk(Append(cur, seg), Tail(segs))
             ELSE [err |-> "ENOENT", node |-> cur]

\* the node a path names
Resolve(file_path) ==
    IF file_path = <<>> THEN [err |-> "ENOENT", node |-> Cwd]
    ELSE Walk(IF Head(file_path) = "/" THEN <<>> ELSE Cwd, SplitOn(file_path, "/"))

\* os.path.join(a, b) for b that does not start with a slash
PathJoin(a, b) ==
    IF a = <<>> THEN b
    ELSE IF Last(a) = "/" THEN a \o b
    ELSE a \o <<"/">> \o b

\* os.path.isdir
IsDirNode(r) == r.err = "ok" /\ Entry(r.node).kind = "dir"

IsDir(file_path) == IsDirNode(Resolve(file_path))

\* open(file_path, 'rb') and f.read(): the bytes, FileNotFoundError, or
\* another OSError (NotADirectoryError, IsADirectoryError, PermissionError)
OpenNode(r) ==
    IF r.err = "ENOENT"
    THEN [err |-> "FileNotFoundError", content |-> <<>>]
    ELSE IF r.err = "ENOTDIR"
    THEN [err |-> "NotADirectoryError", content |-> <<>>]
    ELSE IF Entry(r.node).kind = "dir"
    THEN [err |-> "IsADirectoryError", content |-> <<>>]
    ELSE IF ~Entry(r.node).readable
    THEN [err |-> "PermissionError", content |-> <<>>]
    ELSE [err |-> "ok", content |-> Utf8(Entry(r.node).content)]

OpenRead(file_path) == OpenNode(Resolve(file_path))

\* mimetypes.guess_type(file_path)[0] or 'application/octet-stream'
GuessType(file_path) ==
    IF EndsWith(file_path, DOT_HTML) THEN TEXT_HTML ELSE OCTET_STREAM

\* str(e) of the error open raised
ErrorText(err, file_path) == <<"[", "E", "r", "r", "n", "o", "]", " ">> \o file_path

(***************************************************************************)
(* Reading the request: the header loop, int(), the body's decoding.       *)
(***************************************************************************)
\* a line as readline returns it: ok is FALSE when its bytes are not UTF-8
TextLine(s) == [ok |-> TRUE, text |-> s]

BadBytes == [ok |-> FALSE, text |-> <<>>]

\* p in s, for strings
IsSubstring(p, s) ==
    \E i \in 0..(Len(s) - Len(p)) : SubSeq(s, i + 1, i + Len(p)) = p

\* the header loop: the headers dict, or err when a line does not decode
RECURSIVE ReadHeaderLines(_, _)
ReadHeaderLines(lines, headers) ==
    IF lines = <<>> THEN [err |-> FALSE, headers |-> headers]
    ELSE LET hline == Head(lines)
         IN  IF ~hline.ok THEN [err |-> TRUE, headers |-> headers]
             ELSE IF hline.text = <<>> \/ hline.text \in {<<"\r", "\n">>, <<"\n">>}
                  THEN [err |-> FALSE, headers |-> headers]
             ELSE IF Contains(hline.text, ":")
                  THEN LET nv == SplitFirst(hline.text, ":")
                       IN  ReadHeaderLines(Tail(lines),
                               DictSet(headers, Strip(nv[1], Whitespace),
                                       Strip(nv[2], Whitespace)))
             ELSE ReadHeaderLines(Tail(lines), headers)

\* the value of a string of decimal digits
RECURSIVE DigitsValue(_, _)
DigitsValue(s, acc) ==
    IF s = <<>> THEN acc
    ELSE DigitsValue(Tail(s), 10 * acc + (IndexOf(Digits, Head(s), 1) - 1))

\* int(s): an optional sign and decimal digits (underscores and non-ASCII
\* digits, which int also takes, are not among the model's inputs)
ParseInt(s) ==
    LET t == Strip(s, Whitespace)
        signed == t # <<>> /\ Head(t) \in {"+", "-"}
        d == IF signed THEN Tail(t) ELSE t
    IN  IF d = <<>> \/ \E i \in 1..Len(d) : ~Contains(Digits, d[i])
        THEN [ok |-> FALSE, v |-> 0]
        ELSE [ok |-> TRUE,
              v |-> IF signed /\ Head(t) = "-" THEN 0 - DigitsValue(d, 0)
                    ELSE DigitsValue(d, 0)]

\* rfile.read(length) from a client that sent avail and closed: length
\* bytes, or all of them when there are fewer or the length is negative
ReadBytes(avail, length) ==
    IF length < 0 \/ length >= Len(avail) THEN avail ELSE SubSeq(avail, 1, length)

\* the character of an ASCII code
CharOf(code) ==
    CASE code >= 48 /\ code <= 57 -> Digits[code - 47]
      [] code >= 65 /\ code <= 90 -> UpperCase[code - 64]
      [] code >= 97 /\ code <= 122 -> LowerCase[code - 96]
      [] code = 32 -> " "
      [] code = 38 -> "&"
      [] code = 43 -> "+"
      [] code = 45 -> "-"
      [] code = 46 -> "."
      [] code = 47 -> "/"
      [] code = 58 -> ":"
      [] code = 61 -> "="
      [] code = 91 -> "["
      [] code = 93 -> "]"
      [] code = 123 -> "{"
      [] code = 125 -> "}"

\* bytes.decode('utf-8', errors='ignore') for ASCII bytes and bytes that
\* begin no UTF-8 sequence (128..191, 248..255), which are dropped
RECURSIVE DecodeIgnore(_)
DecodeIgnore(b) ==
    IF b = <<>> THEN <<>>
    ELSE IF Head(b) < 128 THEN <<CharOf(Head(b))>> \o DecodeIgnore(Tail(b))
    ELSE DecodeIgnore(Tail(b))

\* json.loads for the bodies of the model: the value, or ok FALSE when the
\* text is not JSON
JsonLoads(b) ==
    CASE b = <<123, 125>> -> [ok |-> TRUE, type |-> "dict"]
      [] b = <<91, 93>> -> [ok |-> TRUE, type |-> "list"]
      [] b = <<55>> -> [ok |-> TRUE, type |-> "int"]
      [] OTHER -> [ok |-> FALSE, type |-> ""]

\* urllib.parse.unquote of a name or value after '+' became a space
\* (percent escapes are not among the model's inputs)
PlusToSpace(s) == [i \in 1..Len(s) |-> IF s[i] = "+" THEN " " ELSE s[i]]

\* the values parse_qs has collected for a name, in order
QsAdd(d, name, value) ==
    IF HasKey(d, name)
    THEN [i \in 1..Len(d) |->
            IF d[i][1] = name THEN <<name, Append(d[i][2], value)>> ELSE d[i]]
    ELSE Append(d, <<name, <<value>>>>)

\* urllib.parse.parse_qs: fields split on '&', a field without '=' or with
\* an empty value is dropped, values of one name collect in a list
RECURSIVE QsFields(_, _)
QsFields(fields, d) ==
    IF fields = <<>> THEN d
    ELSE LET f == Head(fields)
         IN  IF ~Contains(f, "=") THEN QsFields(Tail(fields), d)
             ELSE LET nv == SplitFirst(f, "=")
                  IN  IF nv[2] = <<>> THEN QsFields(Tail(fields), d)
                      ELSE QsFields(Tail(fields),
                               QsAdd(d, PlusToSpace(nv[1]), PlusToSpace(nv[2])))

ParseQs(s) == QsFields(SplitOn(s, "&"), <<>>)

\* Request.query: a name with one value maps to the string itself
QueryOf(query_string) ==
    IF query_string = <<>> THEN <<>>
    ELSE LET d == ParseQs(query_string)
         IN  [i \in 1..Len(d) |->
                <<d[i][1],
                  IF Len(d[i][2]) = 1 THEN [list |-> FALSE, v |-> d[i][2][1]]
                  ELSE [list |-> TRUE, v |-> d[i][2]]>>]

\* Request.body
DecodeBody(headers, body) ==
    IF body = <<>> THEN [kind |-> "none", v |-> <<>>]
    ELSE LET content_type == IF HasKey(headers, CONTENT_TYPE)
                             THEN Lookup(headers, CONTENT_TYPE) ELSE <<>>
         IN  IF IsSubstring(APPLICATION_JSON, content_type)
             THEN IF JsonLoads(body).ok
                  THEN [kind |-> "json", v |-> JsonLoads(body).type]
                  ELSE [kind |-> "text", v |-> DecodeIgnore(body)]
             ELSE IF IsSubstring(FORM_URLENCODED, content_type)
             THEN [kind |-> "form", v |-> ParseQs(DecodeIgnore(body))]
             ELSE [kind |-> "bytes", v |-> body]

\* the Request before the request line is read
NoRequest ==
    [method |-> <<>>, raw_path |-> <<>>, path |-> <<>>, query |-> <<>>,
     headers |-> <<>>, params |-> <<>>, body |-> [kind |-> "none", v |-> <<>>]]

\* Request.__init__
NewRequest(method, path, headers, body) ==
    LET q == Contains(path, "?")
        path_only == IF q THEN SplitFirst(path, "?")[1] ELSE path
        query_string == IF q THEN SplitFirst(path, "?")[2] ELSE <<>>
    IN  [method |-> method, raw_path |-> path, path |-> path_only,
         query |-> QueryOf(query_string), headers |-> headers,
         params |-> <<>>, body |-> DecodeBody(headers, body)]

(***************************************************************************)
(* The static stage and the route lookup of handle_request.                *)
(***************************************************************************)
\* the first mapping whose prefix the path starts with, 0 when there is none
RECURSIVE FirstPrefix(_, _, _)
FirstPrefix(static_routes, path, i) ==
    IF i > Len(static_routes) THEN 0
    ELSE IF StartsWith(path, static_routes[i][1]) THEN i
    ELSE FirstPrefix(static_routes, path, i + 1)

\* a directory is served by its index.html
WithIndex(file_path) ==
    IF IsDir(file_path) THEN PathJoin(file_path, INDEX_HTML) ELSE file_path

\* the file the static stage opens for a path under a mapping
StaticFilePath(prefix, directory, path) ==
    WithIndex(PathJoin(directory,
                       LStrip(SubSeq(path, Len(prefix) + 1, Len(path)), {"/"})))

\* what one send adds to the socket's output: the status and body it was
\* called with, the sendall calls that succeeded, whether all did, and the
\* place in the program that called it
Emissions(s, by) ==
    IF s.emitted
    THEN <<[by |-> by, status |-> s.res.status_code, body |-> s.body,
            chunks |-> s.chunks, complete |-> s.complete]>>
    ELSE <<>>

\* a static stage that never sets served
StaticResultUnserved(served, r, out, opened_files, e) ==
    [served |-> FALSE, res |-> r, out |-> out, opened |-> opened_files, exc |-> e]

\* the static stage's result: served, the response, what was written, the
\* files opened, and the exception that leaves handle_request
StaticResult(served, r, out, opened_files, e) ==
    [served |-> served, res |-> r, out |-> out, opened |-> opened_files, exc |-> e]

\* "except Exception" around a send of the file that raised: the response
\* is already sent, status(500).send(...) writes nothing
StaticSendFailed(file_path, s, s2) ==
    StaticResult(TRUE, s2.res, Emissions(s, "static") \o Emissions(s2, "static_error"),
                 <<file_path>>, "none")

\* after res.send(content)
StaticSent(file_path, s, w) ==
    IF s.exc = "none"
    THEN StaticResult(TRUE, s.res, Emissions(s, "static"), <<file_path>>, "none")
    ELSE CHOOSE st \in {StaticSendFailed(file_path, s, s2) :
                           s2 \in {Send(Status(s.res, 500),
                                        TextData(ERROR_READING), w)}} : TRUE

\* after res.status(500).send(...) for an error of open or read
StaticFailed(file_path, s) ==
    StaticResult(s.exc = "none", s.res, Emissions(s, "static_error"),
                 <<file_path>>, s.exc)

\* a try block that passes over every error of open and read
StaticTryPassAll(file_path, f, r, w) ==
    IF f.err = "ok"
    THEN CHOOSE st \in {StaticSent(file_path, s, w) :
                           s \in {Send(SetHeader(r, CONTENT_TYPE, GuessType(file_path)),
                                       BytesData(f.content), w)}} : TRUE
    ELSE StaticResult(FALSE, r, <<>>, <<file_path>>, "none")

\* the try block of the static stage, f being what open and read gave
StaticTry(file_path, f, r, w) ==
    IF f.err = "ok"
    THEN CHOOSE st \in {StaticSent(file_path, s, w) :
                           s \in {Send(SetHeader(r, CONTENT_TYPE, GuessType(file_path)),
                                       BytesData(f.content), w)}} : TRUE
    ELSE IF f.err = "FileNotFoundError"
    THEN StaticResult(FALSE, r, <<>>, <<file_path>>, "none")
    ELSE CHOOSE st \in {StaticFailed(file_path, s) :
                           s \in {Send(Status(r, 500),
                                       TextData(ERROR_READING
                                                \o ErrorText(f.err, file_path)),
                                       w)}} : TRUE

\* the body of the loop for the mapping at i, 0 when no prefix matched
StaticAt(static_routes, i, r, path, w) ==
    IF i = 0 THEN StaticResult(FALSE, r, <<>>, <<>>, "none")
    ELSE CHOOSE st \in UNION {{StaticTry(p, f, r, w) : f \in {OpenRead(p)}} :
                                 p \in {StaticFilePath(static_routes[i][1],
                                                       static_routes[i][2], path)}} :
            TRUE

\* the static stage of handle_request
StaticStage(static_routes, r, path, w) ==
    StaticAt(static_routes, FirstPrefix(static_routes, path, 1), r, path, w)

\* a lookup that falls back on the routes of GET
RouteListOrGet(rs, method) ==
    IF method \in DOMAIN rs THEN rs[method]
    ELSE IF GET \in DOMAIN rs THEN rs[GET] ELSE <<>>

\* self.routes.get(method, [])
RouteList(rs, method) == IF method \in DOMAIN rs THEN rs[method] ELSE <<>>

\* a lookup that keeps the last route that matches
RECURSIVE LastMatch(_, _, _)
LastMatch(route_list, path, i) ==
    IF i > Len(route_list) THEN 0
    ELSE IF LastMatch(route_list, path, i + 1) # 0
         THEN LastMatch(route_list, path, i + 1)
    ELSE IF RegexMatch(route_list[i].regex, path).ok THEN i
    ELSE 0

\* the route the loop over route_list stops at: the first whose regex
\* matches the path, 0 when none does
RECURSIVE FirstMatch(_, _, _)
FirstMatch(route_list, path, i) ==
    IF i > Len(route_list) THEN 0
    ELSE IF RegexMatch(route_list[i].regex, path).ok THEN i
    ELSE FirstMatch(route_list, path, i + 1)

(***************************************************************************)
(* What clients send and what the application registers.                   *)
(***************************************************************************)
P_ROOT ==
    <<"/">>

P_DATA ==
    <<"/", "d", "a", "t", "a">>

P_DATA_1 ==
    <<"/", "d", "a", "t", "a", "/", "1">>

P_NONE ==
    <<"/", "n", "o", "p", "e">>

P_STATIC_A ==
    <<"/", "s", "t", "a", "t", "i", "c", "/", "a", ".", "t", "x", "t">>

P_STATIC_MISSING ==
    <<"/", "s", "t", "a", "t", "i", "c", "/", "m", "i", "s", "s", "i", "n",
      "g">>

P_STATIC_UNDER_FILE ==
    <<"/", "s", "t", "a", "t", "i", "c", "/", "a", ".", "t", "x", "t", "/",
      "x">>

P_STATIC_LOCKED ==
    <<"/", "s", "t", "a", "t", "i", "c", "/", "l", "o", "c", "k", "e", "d">>

P_STATIC_EMPTY ==
    <<"/", "s", "t", "a", "t", "i", "c", "/", "e", "m", "p", "t", "y">>

P_STATIC ==
    <<"/", "s", "t", "a", "t", "i", "c">>

T_DATA_ID ==
    <<"/", "d", "a", "t", "a", "/", ":", "i", "d">>

T_STATIC_NAME ==
    <<"/", "s", "t", "a", "t", "i", "c", "/", ":", "n", "a", "m", "e">>

T_ANY ==
    <<"/", ":", "x">>

STATIC_PREFIX ==
    <<"/", "s", "t", "a", "t", "i", "c">>

STATIC_PREFIX_BARE ==
    <<"s", "t", "a", "t", "i", "c", "/">>

\* a request line as the client writes it
ReqLine(method, path) ==
    TextLine(method \o <<" ">> \o path \o <<" ">> \o HTTP11 \o <<"\r", "\n">>)

\* the paths clients ask for
GetPaths ==
    {P_ROOT, P_DATA, P_DATA_1, P_NONE, P_STATIC, P_STATIC_A, P_STATIC_MISSING,
     P_STATIC_UNDER_FILE, P_STATIC_LOCKED, P_STATIC_EMPTY}

\* the first lines clients send: well-formed ones, the empty line of a
\* peer that closed, a blank line, two and four tokens, bytes that are
\* not UTF-8
RequestLines ==
    {ReqLine(GET, p) : p \in GetPaths}
    \cup {ReqLine(POST, p) : p \in {P_DATA, P_STATIC_MISSING}}
    \cup {ReqLine(OPTIONS, p) : p \in {P_DATA, P_STATIC_A, P_NONE}}
    \cup {TextLine(<<>>), TextLine(<<"\r", "\n">>),
          TextLine(GET \o <<" ">> \o P_DATA \o <<"\r", "\n">>),
          TextLine(GET \o <<" ">> \o P_DATA \o <<" ">> \o HTTP11 \o <<" ">>
                   \o <<"x", "\r", "\n">>),
          BadBytes}

HeaderLine(name, value) == TextLine(name \o <<":", " ">> \o value \o <<"\r", "\n">>)

BlankLine == TextLine(<<"\r", "\n">>)

\* the header lines clients send
HeaderBlocks ==
    { <<BlankLine>>,
      <<HeaderLine(CONTENT_TYPE, APPLICATION_JSON),
        HeaderLine(CONTENT_LENGTH, <<"2">>), BlankLine>>,
      <<HeaderLine(CONTENT_LENGTH, <<"a", "b", "c">>), BlankLine>>,
      <<TextLine(<<"x", "\r", "\n">>), BadBytes, BlankLine>> }

\* the body bytes clients send before they close: "{}"
ClientBodies == {<<123, 125>>}

\* what registration is called with
Registrations ==
    {<<GET, P_DATA>>, <<GET, T_ANY>>, <<GET, T_STATIC_NAME>>, <<POST, P_DATA>>}

StaticPrefixes == {STATIC_PREFIX, STATIC_PREFIX_BARE}

StaticDirs == {STATIC_DIR}

\* what the handlers of Spec call send with
HandlerData == {TextData(<<"h", "U+00E9">>)}

\* how a handler run ends: it returns, raises an Exception, or raises a
\* BaseException that is no Exception (SystemExit)
HandlerEnds == {"return", "Exception", "BaseException"}

\* what the handlers of SpecResponse call status, set_header, send and
\* json with
ResponseCodes == {201, 299}

ResponseHeaders ==
    {<<CONTENT_LENGTH, <<"9">>>>, <<CONNECTION, <<"o", "n">>>>,
     <<<<"c", "o", "n", "t", "e", "n", "t", "-", "l", "e", "n", "g", "t", "h">>,
       <<"9">>>>}

ResponseData ==
    {NoData, BytesData(<<0, 255>>), TextData(<<"h", "U+00E9">>),
     TextData(<<"U+20AC">>), Unencodable}

ResponseObjects == {EmptyDict, SetObject}

(***************************************************************************)
(* State.                                                                  *)
(***************************************************************************)
VARIABLES
    routes,         \* MiniExpress.routes: method -> list of [regex, handler]
    static_routes,  \* MiniExpress.static_routes: list of <<prefix, directory>>
    server,         \* "init" before listen, "listening", "closed" after it,
                    \* "crashed" when the application died before listen
    accepted,       \* connections accept has returned
    pc,             \* where each connection's handle_request thread is
    req,            \* the Request of each connection
    res,            \* the Response of each connection
    built,          \* whether Request and Response were constructed
    wire,           \* what was written to each socket, one entry per send
    closes,         \* client_sock.close() calls per connection
    invoked,        \* the handlers called per connection, in order
    opened,         \* the files the static stage opened per connection
    ops,            \* the handler's calls on the Response: <<name, wrote>>
    hend,           \* how the handler's call ended, "none" before
    rline,          \* the request line each thread has read, <<>> before
    exc,            \* the exception that ended the thread, "none" otherwise
    database,       \* app.py's database: the list of stored items
    new_id          \* create_data's local new_id per connection, 0 before

vars ==
    <<routes, static_routes, server, accepted, pc, rline, req, res, built,
      wire, closes, invoked, opened, ops, hend, exc, database, new_id>>

\* the connections of the model
Conns == 1..MaxConns

\* the variables of the connections
connVars ==
    <<pc, rline, req, res, built, wire, closes, invoked, opened, ops, hend, exc>>

\* the variables registration writes
appVars == <<routes, static_routes>>

\* the variables create_data writes
dataVars == <<database, new_id>>

Init ==
    /\ routes = <<>>
    /\ static_routes = <<>>
    /\ server = "init"
    /\ accepted = 0
    /\ pc = [c \in Conns |-> "idle"]
    /\ req = [c \in Conns |-> NoRequest]
    /\ res = [c \in Conns |-> NewResponse]
    /\ built = [c \in Conns |-> FALSE]
    /\ wire = [c \in Conns |-> <<>>]
    /\ closes = [c \in Conns |-> 0]
    /\ invoked = [c \in Conns |-> <<>>]
    /\ opened = [c \in Conns |-> <<>>]
    /\ ops = [c \in Conns |-> <<>>]
    /\ hend = [c \in Conns |-> "none"]
    /\ rline = [c \in Conns |-> <<>>]
    /\ exc = [c \in Conns |-> "none"]
    /\ database = <<>>
    /\ new_id = [c \in Conns |-> 0]

(***************************************************************************)
(* Registration and the listener.                                          *)
(***************************************************************************)
\* an application that goes on registering while the listener accepts
RegisteringLate == server \in {"init", "listening"}

\* the application's module is still running its decorators and use_static
\* calls: app.listen, its last statement, has not been called
Registering == server = "init"

\* the number of routes registered, over all methods
RECURSIVE CountRoutes(_, _)
CountRoutes(rs, ms) ==
    IF ms = {} THEN 0
    ELSE LET m == CHOOSE x \in ms : TRUE
         IN  Len(rs[m]) + CountRoutes(rs, ms \ {m})

NumRoutes == CountRoutes(routes, DOMAIN routes)

\* self.routes.setdefault(method, []).append((regex, handler)); a handler
\* is named by the order of its registration
Registered(rs, method, path, handler) ==
    LET entry == [template |-> path, regex |-> CompileTemplate(path),
                  handler |-> handler]
    IN  IF method \in DOMAIN rs
        THEN [rs EXCEPT ![method] = Append(@, entry)]
        ELSE [m \in DOMAIN rs \cup {method} |->
                IF m = method THEN <<entry>> ELSE rs[m]]

\* a group name re.compile accepts: str.isidentifier()
IsIdentifier(name) ==
    /\ name # <<>>
    /\ \A i \in 1..Len(name) :
          \/ Contains(UpperCase, name[i])
          \/ Contains(LowerCase, name[i])
          \/ name[i] = "_"
          \/ (i > 1 /\ Contains(Digits, name[i]))

\* re.compile(pattern) raises re.error: a group name that is missing or no
\* identifier, or the redefinition of a group name
CompileError(pat) ==
    \/ \E i \in 1..Len(pat) : pat[i].t = "group" /\ ~IsIdentifier(pat[i].name)
    \/ \E i, j \in 1..Len(pat) :
          i < j /\ pat[i].t = "group" /\ pat[j].t = "group" /\ pat[i].name = pat[j].name

\* MiniExpress.add_route, called by the application before listen; an
\* re.error leaves the application's module and ends the process
AddRoute(method, path) ==
    /\ Registering
    /\ NumRoutes < MaxRoutes
    /\ IF CompileError(CompileTemplate(path))
       THEN /\ server' = "crashed"
            /\ routes' = routes
       ELSE /\ server' = server
            /\ routes' = Registered(routes, method, path, NumRoutes + 1)
    /\ UNCHANGED <<static_routes, accepted, connVars, dataVars>>

\* the prefix use_static stores
NormalPrefix(prefix) ==
    RStrip(IF StartsWith(prefix, <<"/">>) THEN prefix ELSE <<"/">> \o prefix, {"/"})

\* MiniExpress.use_static
UseStatic(prefix, directory) ==
    /\ Registering
    /\ Len(static_routes) < MaxStatic
    /\ static_routes' = Append(static_routes, <<NormalPrefix(prefix), directory>>)
    /\ UNCHANGED <<routes, server, accepted, connVars, dataVars>>

\* MiniExpress.listen up to the accept loop
Listen ==
    /\ server = "init"
    /\ server' = "listening"
    /\ UNCHANGED <<appVars, dataVars, accepted, connVars>>

\* an accept loop that joins the threads it started before the next accept
AcceptAfterJoin ==
    server = "listening" /\ \A c \in 1..accepted : pc[c] \in {"done", "died"}

\* whether the accept loop is in accept(): it waits for no worker
AcceptReady == server = "listening"

\* one turn of the accept loop: accept, start the thread of handle_request
Accept(c) ==
    /\ AcceptReady
    /\ c = accepted + 1
    /\ accepted' = c
    /\ pc' = [pc EXCEPT ![c] = "line"]
    /\ UNCHANGED <<appVars, dataVars, server, rline, req, res, built, wire, closes,
                   invoked, opened, ops, hend, exc>>

\* KeyboardInterrupt in listen: the server socket is closed, listen returns
\* and the process ends with its daemon threads
Interrupt ==
    /\ server = "listening"
    /\ server' = "closed"
    /\ UNCHANGED <<appVars, dataVars, accepted, connVars>>

\* what an exception that leaves handle_request does to the listener: the
\* thread ends, the accept loop is in another thread
ServerAfterThreadError(s) == s

\* a thread of handle_request runs while the process does
Running(c) == server = "listening" /\ pc[c] \notin {"idle", "done", "died", "blocked"}

(***************************************************************************)
(* handle_request, one action per blocking step of the thread.             *)
(***************************************************************************)
\* the thread ends: by return after client_sock.close(), or by an exception
\* that leaves handle_request, which skips the close
EndThread(c, raised) ==
    IF raised = "none"
    THEN /\ closes' = [closes EXCEPT ![c] = @ + 1]
         /\ pc' = [pc EXCEPT ![c] = "done"]
         /\ exc' = exc
         /\ server' = server
    ELSE /\ closes' = closes
         /\ pc' = [pc EXCEPT ![c] = "died"]
         /\ exc' = [exc EXCEPT ![c] = raised]
         /\ server' = ServerAfterThreadError(server)

\* line.strip().split()
LineParts(line) == SplitWS(Strip(line.text, Whitespace), <<>>)

\* early returns that let a line of more than three parts through
AbortsBelowThree(line) == ~line.ok \/ line.text = <<>> \/ Len(LineParts(line)) < 3

\* the three early returns of handle_request: the line does not decode,
\* is empty, or has not exactly three parts
Aborts(line) == ~line.ok \/ line.text = <<>> \/ Len(LineParts(line)) # 3

\* the request line: readline, decode, strip().split()
ReadRequestLine(c, line) ==
    /\ Running(c)
    /\ pc[c] = "line"
    /\ rline' = [rline EXCEPT ![c] = <<line>>]
    /\ IF Aborts(line)
       THEN /\ EndThread(c, "none")
            /\ UNCHANGED req
       ELSE /\ req' = [req EXCEPT ![c].method = LineParts(line)[1],
                                  ![c].raw_path = LineParts(line)[2]]
            /\ pc' = [pc EXCEPT ![c] = "headers"]
            /\ UNCHANGED <<closes, exc, server>>
    /\ UNCHANGED <<appVars, dataVars, accepted, res, built, wire, invoked, opened, ops, hend>>

\* the header loop; a line that does not decode raises UnicodeDecodeError
HeadersRead(c, h) ==
    IF h.err
    THEN /\ EndThread(c, "UnicodeDecodeError")
         /\ UNCHANGED req
    ELSE /\ req' = [req EXCEPT ![c].headers = h.headers]
         /\ pc' = [pc EXCEPT ![c] = "body"]
         /\ UNCHANGED <<closes, exc, server>>

ReadHeaders(c, lines) ==
    /\ Running(c)
    /\ pc[c] = "headers"
    /\ HeadersRead(c, ReadHeaderLines(lines, <<>>))
    /\ UNCHANGED <<appVars, dataVars, accepted, rline, res, built, wire, invoked, opened,
                   ops, hend>>

\* int(headers['Content-Length']) when the header is there
BodyLength(headers) ==
    IF HasKey(headers, CONTENT_LENGTH)
    THEN ParseInt(Lookup(headers, CONTENT_LENGTH))
    ELSE [ok |-> TRUE, v |-> 0]

\* the body handle_request reads
BodyOf(headers, avail) ==
    IF HasKey(headers, CONTENT_LENGTH)
    THEN ReadBytes(avail, BodyLength(headers).v)
    ELSE <<>>

\* the body: int(Content-Length) raises ValueError on text that is no
\* number; then Request and Response are constructed
ReadBody(c, avail) ==
    /\ Running(c)
    /\ pc[c] = "body"
    /\ IF ~BodyLength(req[c].headers).ok
       THEN /\ EndThread(c, "ValueError")
            /\ UNCHANGED <<req, res, built>>
       ELSE /\ req' = [req EXCEPT ![c] =
                          NewRequest(req[c].method, req[c].raw_path, req[c].headers,
                                     BodyOf(req[c].headers, avail))]
            /\ res' = [res EXCEPT ![c] = NewResponse]
            /\ built' = [built EXCEPT ![c] = TRUE]
            /\ pc' = [pc EXCEPT ![c] = "route"]
            /\ UNCHANGED <<closes, exc, server>>
    /\ UNCHANGED <<appVars, dataVars, accepted, rline, wire, invoked, opened, ops, hend>>

\* the client stops sending while the thread waits in a read: the read
\* never returns
ClientStalls(c) ==
    /\ Running(c)
    /\ pc[c] \in {"line", "headers", "body"}
    /\ pc[c] = "body" => (BodyLength(req[c].headers).ok
                           /\ BodyLength(req[c].headers).v > 0)
    /\ pc' = [pc EXCEPT ![c] = "blocked"]
    /\ UNCHANGED <<appVars, dataVars, server, accepted, rline, req, res, built, wire,
                   closes, invoked, opened, ops, hend, exc>>

\* the response to OPTIONS
Preflight(r, w) ==
    Send(SetHeader(SetHeader(SetHeader(Status(r, 200), ALLOW_ORIGIN, STAR),
                             ALLOW_METHODS_NAME, ALLOW_METHODS),
                   ALLOW_HEADERS_NAME, CONTENT_TYPE), TextData(<<>>), w)

\* a dispatcher without the preflight branch
NeverPreflight(method) == FALSE

\* whether handle_request takes the preflight branch
IsPreflight(method) == method = OPTIONS

\* a send of the dispatcher that ends the thread
RouteSend(c, s, by) ==
    /\ res' = [res EXCEPT ![c] = s.res]
    /\ wire' = [wire EXCEPT ![c] = @ \o Emissions(s, by)]
    /\ EndThread(c, s.exc)
    /\ UNCHANGED <<req, invoked>>

\* the loop over route_list stopped at i: the handler is called; or it ran
\* out (i = 0): 404
RouteAt(c, route_list, i, w) ==
    IF i # 0
    THEN /\ req' = [req EXCEPT ![c].params =
                         RegexMatch(route_list[i].regex, req[c].path).groups]
         /\ invoked' = [invoked EXCEPT ![c] = Append(@, route_list[i].handler)]
         /\ pc' = [pc EXCEPT ![c] = "handler"]
         /\ UNCHANGED <<res, wire, closes, exc, server>>
    ELSE \E s \in {Send(Status(res[c], 404), TextData(NOT_FOUND), w)} :
            RouteSend(c, s, "not_found")

\* after the static stage
RouteStatic(c, st, w) ==
    /\ opened' = [opened EXCEPT ![c] = @ \o st.opened]
    /\ IF st.served \/ st.exc # "none"
       THEN /\ res' = [res EXCEPT ![c] = st.res]
            /\ wire' = [wire EXCEPT ![c] = @ \o st.out]
            /\ EndThread(c, st.exc)
            /\ UNCHANGED <<req, invoked>>
       ELSE RouteAt(c, RouteList(routes, req[c].method),
                    FirstMatch(RouteList(routes, req[c].method), req[c].path, 1), w)

\* from the constructed Request to the handler's call or the thread's end:
\* the preflight, the static stage, the route lookup, the 404
Route(c, w) ==
    /\ Running(c)
    /\ pc[c] = "route"
    /\ IF IsPreflight(req[c].method)
       THEN /\ \E s \in {Preflight(res[c], w)} : RouteSend(c, s, "preflight")
            /\ UNCHANGED opened
       ELSE \E st \in {StaticStage(static_routes, res[c], req[c].path, w)} :
               RouteStatic(c, st, w)
    /\ UNCHANGED <<appVars, dataVars, accepted, rline, built, ops, hend>>

(***************************************************************************)
(* The handler: any sequence of calls on the Response, then its end.       *)
(***************************************************************************)
InHandler(c) == Running(c) /\ pc[c] = "handler" /\ Len(ops[c]) < MaxHandlerOps

\* what the dispatcher did once the handler's call was over
AfterResult(e, f, end) ==
    [res |-> f.res,
     out |-> Emissions(e, "handler_error") \o Emissions(f, "fallback"),
     exc |-> IF f.exc # "none" THEN f.exc
             ELSE IF e.exc # "none" THEN e.exc
             ELSE IF end = "BaseException" THEN "BaseException"
             ELSE "none"]

\* a dispatcher without the forced send of the finally clause
AfterExceptNoFallback(e, end, w) == AfterResult(e, NotSent(e.res, "none"), end)

\* the finally clause: a response not sent yet is sent empty
AfterExcept(e, end, w) ==
    CHOOSE a \in {AfterResult(e, f, end) :
                     f \in {IF ~e.res.sent THEN Send(e.res, NoData, w)
                            ELSE NotSent(e.res, "none")}} : TRUE

\* an except clause that sends its text without status(500)
AfterHandlerNoStatus(r, end, w) ==
    CHOOSE a \in {AfterExcept(e, end, w) :
                     e \in {IF end = "Exception"
                            THEN Send(r, TextData(INTERNAL_SERVER_ERROR), w)
                            ELSE NotSent(r, "none")}} : TRUE

\* the except clause for an Exception, then the finally clause
AfterHandler(r, end, w) ==
    CHOOSE a \in {AfterExcept(e, end, w) :
                     e \in {IF end = "Exception"
                            THEN Send(Status(r, 500),
                                      TextData(INTERNAL_SERVER_ERROR), w)
                            ELSE NotSent(r, "none")}} : TRUE

\* the thread after the handler's call: the close, unless an exception
\* leaves handle_request
Finish(c, a, before) ==
    /\ res' = [res EXCEPT ![c] = a.res]
    /\ wire' = [wire EXCEPT ![c] = @ \o before \o a.out]
    /\ EndThread(c, a.exc)

\* the handler's call ends
HandlerEnd(c, end, w) ==
    /\ Running(c)
    /\ pc[c] = "handler"
    /\ \E a \in {AfterHandler(res[c], end, w)} : Finish(c, a, <<>>)
    /\ hend' = [hend EXCEPT ![c] = end]
    /\ UNCHANGED <<appVars, dataVars, accepted, rline, req, built, invoked, opened, ops>>

\* res.status(code) in the handler
HandlerStatus(c, code) ==
    /\ InHandler(c)
    /\ res' = [res EXCEPT ![c] = Status(@, code)]
    /\ ops' = [ops EXCEPT ![c] = Append(@, <<"status", FALSE>>)]
    /\ UNCHANGED <<appVars, dataVars, server, accepted, pc, rline, req, built, wire,
                   closes, invoked, opened, hend, exc>>

\* res.set_header(name, value) in the handler
HandlerSetHeader(c, name, value) ==
    /\ InHandler(c)
    /\ res' = [res EXCEPT ![c] = SetHeader(@, name, value)]
    /\ ops' = [ops EXCEPT ![c] = Append(@, <<"set_header", FALSE>>)]
    /\ UNCHANGED <<appVars, dataVars, server, accepted, pc, rline, req, built, wire,
                   closes, invoked, opened, hend, exc>>

\* a call of send or json in the handler; an exception that leaves it is
\* caught by the handler (catches) or ends the handler's call
HandlerCall(c, name, s, catches, w) ==
    /\ ops' = [ops EXCEPT ![c] = Append(@, <<name, s.emitted>>)]
    /\ IF s.exc = "none" \/ catches
       THEN /\ res' = [res EXCEPT ![c] = s.res]
            /\ wire' = [wire EXCEPT ![c] = @ \o Emissions(s, "handler")]
            /\ hend' = hend
            /\ UNCHANGED <<pc, closes, exc, server>>
       ELSE /\ Finish(c, AfterHandler(s.res, "Exception", w), Emissions(s, "handler"))
            /\ hend' = [hend EXCEPT ![c] = "Exception"]
    /\ UNCHANGED <<appVars, dataVars, accepted, rline, req, built, invoked, opened>>

\* res.send(data) in the handler
HandlerSend(c, data, w, catches) ==
    /\ InHandler(c)
    /\ HandlerCall(c, "send", Send(res[c], data, w), catches, w)

\* res.json(obj) in the handler
HandlerJson(c, obj, w, catches) ==
    /\ InHandler(c)
    /\ HandlerCall(c, "json", Json(res[c], obj, w), catches, w)

(***************************************************************************)
(* create_data of app.py, the handler of POST /data, one action per step   *)
(* at which the interpreter can switch threads.                            *)
(***************************************************************************)
INVALID_JSON ==
    <<"I", "n", "v", "a", "l", "i", "d", " ", "J", "S", "O", "N", "!">>

\* isinstance(body, dict): a JSON object, or what parse_qs returns
IsDict(body) == (body.kind = "json" /\ body.v = "dict") \/ body.kind = "form"

\* return res.status(400).send("Invalid JSON!")
CreateDataReject(c, s, w) ==
    /\ ops' = [ops EXCEPT ![c] = Append(@, <<"send", s.emitted>>)]
    /\ hend' = [hend EXCEPT ![c] = IF s.exc = "none" THEN "return" ELSE "Exception"]
    /\ \E a \in {AfterHandler(s.res, IF s.exc = "none" THEN "return" ELSE "Exception", w)} :
          Finish(c, a, Emissions(s, "handler"))
    /\ UNCHANGED dataVars

\* body = req.body; the isinstance test; new_id = len(database) + 1
CreateDataNewId(c, w) ==
    /\ Running(c)
    /\ pc[c] = "handler"
    /\ IF IsDict(req[c].body)
       THEN /\ new_id' = [new_id EXCEPT ![c] = Len(database) + 1]
            /\ pc' = [pc EXCEPT ![c] = "append"]
            /\ UNCHANGED <<database, res, wire, closes, exc, server, ops, hend>>
       ELSE \E s \in {Send(Status(res[c], 400), TextData(INVALID_JSON), w)} :
               CreateDataReject(c, s, w)
    /\ UNCHANGED <<appVars, accepted, rline, req, built, invoked, opened>>

\* new_item = {"id": new_id, "data": body}; database.append(new_item)
CreateDataAppend(c) ==
    /\ Running(c)
    /\ pc[c] = "append"
    /\ database' = Append(database, [id |-> new_id[c], data |-> req[c].body])
    /\ pc' = [pc EXCEPT ![c] = "respond"]
    /\ UNCHANGED <<appVars, server, accepted, rline, req, res, built, wire, closes,
                   invoked, opened, ops, hend, exc, new_id>>

\* res.status(201).json({"id": new_id}), and the handler returns
CreateDataRespond(c, w) ==
    /\ Running(c)
    /\ pc[c] = "respond"
    /\ \E s \in {Json(Status(res[c], 201), [kind |-> "id", id |-> new_id[c]], w)} :
          CreateDataReject(c, s, w)
    /\ UNCHANGED <<appVars, accepted, rline, req, built, invoked, opened>>

(***************************************************************************)
(* Spec: an application registers any routes and mappings, listens, and    *)
(* serves any request of one connection; its handlers send text and end.   *)
(***************************************************************************)
Next ==
    \/ \E r \in Registrations : AddRoute(r[1], r[2])
    \/ \E p \in StaticPrefixes, d \in StaticDirs : UseStatic(p, d)
    \/ Listen
    \/ Accept(1)
    \/ \E c \in Conns, line \in RequestLines : ReadRequestLine(c, line)
    \/ \E c \in Conns, lines \in HeaderBlocks : ReadHeaders(c, lines)
    \/ \E c \in Conns, avail \in ClientBodies : ReadBody(c, avail)
    \/ \E c \in Conns : ClientStalls(c)
    \/ \E c \in Conns, w \in WriteOutcomes : Route(c, w)
    \/ \E c \in Conns, d \in HandlerData, w \in WriteOutcomes, k \in BOOLEAN :
          HandlerSend(c, d, w, k)
    \/ \E c \in Conns, e \in HandlerEnds, w \in WriteOutcomes : HandlerEnd(c, e, w)

Spec == Init /\ [][Next]_vars

(***************************************************************************)
(* SpecResponse: an application that registered one route listens; the     *)
(* handler makes any calls on the Response before it ends.                 *)
(***************************************************************************)
InitResponse ==
    /\ routes = Registered(<<>>, GET, P_DATA, 1)
    /\ static_routes = <<>>
    /\ server = "listening"
    /\ accepted = 0
    /\ pc = [c \in Conns |-> "idle"]
    /\ req = [c \in Conns |-> NoRequest]
    /\ res = [c \in Conns |-> NewResponse]
    /\ built = [c \in Conns |-> FALSE]
    /\ wire = [c \in Conns |-> <<>>]
    /\ closes = [c \in Conns |-> 0]
    /\ invoked = [c \in Conns |-> <<>>]
    /\ opened = [c \in Conns |-> <<>>]
    /\ ops = [c \in Conns |-> <<>>]
    /\ hend = [c \in Conns |-> "none"]
    /\ rline = [c \in Conns |-> <<>>]
    /\ exc = [c \in Conns |-> "none"]
    /\ database = <<>>
    /\ new_id = [c \in Conns |-> 0]

NextResponse ==
    \/ Accept(1)
    \/ \E c \in Conns : ReadRequestLine(c, ReqLine(GET, P_DATA))
    \/ \E c \in Conns : ReadHeaders(c, <<BlankLine>>)
    \/ \E c \in Conns : ReadBody(c, <<>>)
    \/ \E c \in Conns, w \in WriteOutcomes : Route(c, w)
    \/ \E c \in Conns, code \in ResponseCodes : HandlerStatus(c, code)
    \/ \E c \in Conns, h \in ResponseHeaders : HandlerSetHeader(c, h[1], h[2])
    \/ \E c \in Conns, d \in ResponseData, w \in WriteOutcomes, k \in BOOLEAN :
          HandlerSend(c, d, w, k)
    \/ \E c \in Conns, o \in ResponseObjects, w \in WriteOutcomes, k \in BOOLEAN :
          HandlerJson(c, o, w, k)
    \/ \E c \in Conns, e \in HandlerEnds, w \in WriteOutcomes : HandlerEnd(c, e, w)

SpecResponse == InitResponse /\ [][NextResponse]_vars

(***************************************************************************)
(* SpecConc: the listener of an application with one route accepts         *)
(* connections while the threads of the earlier ones run, fail or wait     *)
(* for their clients.                                                      *)
(***************************************************************************)
\* what the clients of SpecConc send
ConcLines == {ReqLine(GET, P_DATA), TextLine(<<>>)}

ConcHeaders ==
    { <<BlankLine>>,
      <<HeaderLine(CONTENT_LENGTH, <<"a", "b", "c">>), BlankLine>>,
      <<BadBytes, BlankLine>> }

\* what the sockets of SpecConc do with a write
ConcWrites == {WriteOk, [kind |-> "OSError", n |-> 0]}

\* how the handlers of SpecConc end
ConcEnds == {"return", "Exception"}

\* a step of the thread of connection c
Worker(c) ==
    \/ \E line \in ConcLines : ReadRequestLine(c, line)
    \/ \E lines \in ConcHeaders : ReadHeaders(c, lines)
    \/ \E avail \in ClientBodies : ReadBody(c, avail)
    \/ ClientStalls(c)
    \/ \E w \in ConcWrites : Route(c, w)
    \/ \E e \in ConcEnds, w \in ConcWrites : HandlerEnd(c, e, w)

NextConc ==
    \/ Interrupt
    \/ \E c \in Conns : Accept(c)
    \/ \E c \in Conns : Worker(c)

\* accept returns when a client is there; the threads are scheduled
\* whatever the other threads and the accept loop do
SpecConc ==
    /\ InitResponse
    /\ [][NextConc]_vars
    /\ WF_vars(\E c \in Conns : Accept(c))
    /\ \A c \in Conns : WF_vars(Worker(c))

(***************************************************************************)
(* SpecMatch: an application registers one template for GET and listens;   *)
(* a client asks for one path.                                             *)
(***************************************************************************)
\* the segments templates and paths are made of
TemplateSegments ==
    { <<"d", "a", "t", "a">>, <<"u", "s", "e", "r">>,
      <<":", "i", "d">>, <<":", "x">>, <<":", "1">> }

PathSegments ==
    { <<"d", "a", "t", "a">>, <<"u", "s", "e", "r">>, <<"4", "2">>, <<"1">> }

\* the sequences of 1..n elements of S
SeqsUpTo(S, n) == UNION {[1..k -> S] : k \in 1..n}

\* "/" before every segment
RECURSIVE Joined(_)
Joined(q) == IF q = <<>> THEN <<>> ELSE <<"/">> \o Head(q) \o Joined(Tail(q))

MatchTemplates ==
    {<<"/">>} \cup {Joined(q) : q \in SeqsUpTo(TemplateSegments, MaxSegments)}

MatchPaths ==
    {<<"/">>}
    \cup {Joined(q) : q \in SeqsUpTo(PathSegments, MaxSegments)}
    \cup {Joined(q) \o <<"/">> : q \in SeqsUpTo(PathSegments, MaxSegments)}
    \cup {Joined(q) \o <<"/", "/">> : q \in SeqsUpTo(PathSegments, MaxSegments)}

NextMatch ==
    \/ \E t \in MatchTemplates : NumRoutes = 0 /\ AddRoute(GET, t)
    \/ Listen
    \/ Accept(1)
    \/ \E c \in Conns, p \in MatchPaths : ReadRequestLine(c, ReqLine(GET, p))
    \/ \E c \in Conns : ReadHeaders(c, <<BlankLine>>)
    \/ \E c \in Conns : ReadBody(c, <<>>)
    \/ \E c \in Conns : Route(c, WriteOk)
    \/ \E c \in Conns : HandlerEnd(c, "return", WriteOk)

SpecMatch == Init /\ [][NextMatch]_vars

(***************************************************************************)
(* SpecData: the application's POST /data is registered, the listener      *)
(* accepts connections whose threads run create_data at once.              *)
(***************************************************************************)
\* the bodies the clients of SpecData post: "{}" and "[]"
DataBodies == {<<123, 125>>, <<91, 93>>}

InitData ==
    /\ routes = Registered(<<>>, POST, P_DATA, 1)
    /\ static_routes = <<>>
    /\ server = "listening"
    /\ accepted = 0
    /\ pc = [c \in Conns |-> "idle"]
    /\ req = [c \in Conns |-> NoRequest]
    /\ res = [c \in Conns |-> NewResponse]
    /\ built = [c \in Conns |-> FALSE]
    /\ wire = [c \in Conns |-> <<>>]
    /\ closes = [c \in Conns |-> 0]
    /\ invoked = [c \in Conns |-> <<>>]
    /\ opened = [c \in Conns |-> <<>>]
    /\ ops = [c \in Conns |-> <<>>]
    /\ hend = [c \in Conns |-> "none"]
    /\ rline = [c \in Conns |-> <<>>]
    /\ exc = [c \in Conns |-> "none"]
    /\ database = <<>>
    /\ new_id = [c \in Conns |-> 0]

NextData ==
    \/ \E c \in Conns : Accept(c)
    \/ \E c \in Conns : ReadRequestLine(c, ReqLine(POST, P_DATA))
    \/ \E c \in Conns :
          ReadHeaders(c, <<HeaderLine(CONTENT_TYPE, APPLICATION_JSON),
                           HeaderLine(CONTENT_LENGTH, <<"2">>), BlankLine>>)
    \/ \E c \in Conns, avail \in DataBodies : ReadBody(c, avail)
    \/ \E c \in Conns : Route(c, WriteOk)
    \/ \E c \in Conns : CreateDataNewId(c, WriteOk)
    \/ \E c \in Conns : CreateDataAppend(c)
    \/ \E c \in Conns : CreateDataRespond(c, WriteOk)

SpecData == InitData /\ [][NextData]_vars

(***************************************************************************)
(* SpecForm: a client posts a form to /data and sends the same text as the *)
(* query string of the request target and as the body.                     *)
(***************************************************************************)
\* the texts of the forms: one name once, one name twice, two names, a name
\* between two others of the same name, no '=', a blank value, '+' signs
FormTexts ==
    { <<"a", "=", "1">>,
      <<"a", "=", "1", "&", "a", "=", "2">>,
      <<"a", "=", "1", "&", "b", "=", "2">>,
      <<"a", "=", "1", "&", "b", "=", "2", "&", "a", "=", "3">>,
      <<"a">>,
      <<"a", "=">>,
      <<"a", "=", "&", "b", "=", "1">>,
      <<"x", "+", "y", "=", "1", "+", "2">>,
      <<"a", "=", "1", "&", "&", "a", "=", "1">>,
      <<"b", "=", "2", "&", "a", "=", "1">>,
      <<"a", "=", "1", "=", "2">> }

FORM_UTF8 == FORM_URLENCODED \o <<";", " ", "c", "h", "a", "r", "s", "e", "t", "=",
                                  "u", "t", "f", "-", "8">>

\* the Content-Type values of the forms
FormTypes == {FORM_URLENCODED, FORM_UTF8}

\* the text after '?' in the request target
QueryString(path) == IF Contains(path, "?") THEN SplitFirst(path, "?")[2] ELSE <<>>

\* the header lines of a form whose body is the text of the query string
FormHeaders(type, text) ==
    <<HeaderLine(CONTENT_TYPE, type),
      HeaderLine(CONTENT_LENGTH, IntToStr(Len(Utf8(text)))), BlankLine>>

NextForm ==
    \/ Accept(1)
    \/ \E t \in FormTexts : ReadRequestLine(1, ReqLine(POST, P_DATA \o <<"?">> \o t))
    \/ \E type \in FormTypes : ReadHeaders(1, FormHeaders(type, QueryString(rline[1][1].text)))
    \/ ReadBody(1, Utf8(QueryString(req[1].raw_path)))
    \/ Route(1, WriteOk)
    \/ CreateDataNewId(1, WriteOk)
    \/ CreateDataAppend(1)
    \/ CreateDataRespond(1, WriteOk)

SpecForm == InitData /\ [][NextForm]_vars

(***************************************************************************)
(* SpecStatic: an application that called use_static twice and registered  *)
(* /static/:name and /static/missing under GET and /static/:name under     *)
(* OPTIONS listens; clients ask for paths under, beside and above the      *)
(* mapped prefix.                                                          *)
(***************************************************************************)
EMPTY_DIR == STATIC_DIR \o <<"/">> \o EMPTY

P_STATICA_TXT == STATIC_PREFIX \o A_TXT

P_STATIC_UP_APP == STATIC_PREFIX \o <<"/", ".", ".", "/">> \o APP_PY

\* the use_static calls of SpecStatic: the directory of a.txt, and an empty
\* directory, under the same prefix
StaticMappings == {<<STATIC_PREFIX, STATIC_DIR>>, <<STATIC_PREFIX, EMPTY_DIR>>}

\* static_routes after two use_static calls
StaticTables ==
    {<<<<NormalPrefix(a[1]), a[2]>>, <<NormalPrefix(b[1]), b[2]>>>> :
        a \in StaticMappings, b \in StaticMappings}

\* the paths the clients of SpecStatic ask for
StaticPaths ==
    {P_STATIC, P_STATIC_A, P_STATIC_MISSING, P_STATIC_UNDER_FILE, P_STATIC_LOCKED,
     P_STATICA_TXT, P_STATIC_UP_APP, P_NONE}

\* the route table of SpecStatic
StaticAppRoutes ==
    Registered(Registered(Registered(<<>>, GET, T_STATIC_NAME, 1),
                          GET, P_STATIC_MISSING, 2),
               OPTIONS, T_STATIC_NAME, 3)

InitStatic ==
    /\ routes = StaticAppRoutes
    /\ static_routes \in StaticTables
    /\ server = "listening"
    /\ accepted = 0
    /\ pc = [c \in Conns |-> "idle"]
    /\ req = [c \in Conns |-> NoRequest]
    /\ res = [c \in Conns |-> NewResponse]
    /\ built = [c \in Conns |-> FALSE]
    /\ wire = [c \in Conns |-> <<>>]
    /\ closes = [c \in Conns |-> 0]
    /\ invoked = [c \in Conns |-> <<>>]
    /\ opened = [c \in Conns |-> <<>>]
    /\ ops = [c \in Conns |-> <<>>]
    /\ hend = [c \in Conns |-> "none"]
    /\ rline = [c \in Conns |-> <<>>]
    /\ exc = [c \in Conns |-> "none"]
    /\ database = <<>>
    /\ new_id = [c \in Conns |-> 0]

NextStatic ==
    \/ Accept(1)
    \/ \E m \in {GET, OPTIONS}, p \in StaticPaths : ReadRequestLine(1, ReqLine(m, p))
    \/ ReadHeaders(1, <<BlankLine>>)
    \/ ReadBody(1, <<>>)
    \/ \E w \in WriteOutcomes : Route(1, w)
    \/ \E e \in {"return", "Exception"}, w \in WriteOutcomes : HandlerEnd(1, e, w)

SpecStatic == InitStatic /\ [][NextStatic]_vars

(***************************************************************************)
(* Properties.                                                             *)
(***************************************************************************)
\* the thread of handle_request is over, by return or by an exception
Ended(c) == pc[c] \in {"done", "died"}

\* the header lines of an emission that carry a name
HeaderChunks(e, name) ==
    {j \in 1..Len(e.chunks) : e.chunks[j].k = "header" /\ e.chunks[j].name = name}

\* the bytes of body an emission put on the socket
BodyWritten(e) ==
    IF \E j \in 1..Len(e.chunks) : e.chunks[j].k = "body"
    THEN (e.chunks[CHOOSE j \in 1..Len(e.chunks) : e.chunks[j].k = "body"]).value
    ELSE <<>>

\* C1: once Request and Response are built, exactly one send has begun to
\* write by the time handle_request is over, on every path (preflight,
\* static file, static error, handler that sends, handler that returns
\* without sending, handler that raises, no route): never none, never two.
C1_ExactlyOneResponse ==
    \A c \in Conns :
        /\ Len(wire[c]) <= 1
        /\ (built[c] /\ Ended(c)) => Len(wire[c]) = 1

\* a handler returned without sending and the dispatcher sent the empty body
C1_Witness ==
    \E c \in Conns :
        /\ pc[c] = "done" /\ hend[c] = "return" /\ ops[c] = <<>>
        /\ Len(wire[c]) = 1 /\ wire[c][1].by = "fallback"
        /\ wire[c][1].complete /\ BodyWritten(wire[c][1]) = <<>>

\* C2 as stated: whenever the handler raised, the response on the wire has
\* status 500, also when the handler had sent before it raised.
C2_RaiseYields500 ==
    \A c \in Conns :
        (Ended(c) /\ hend[c] \in {"Exception", "BaseException"})
            => (Len(wire[c]) = 1 /\ wire[c][1].status = 500)

\* C2 amended: after a handler raised, exactly one send has begun to write.
\* For an Exception raised before any send of the handler wrote, it is the
\* dispatcher's 500 Internal Server Error; a response the handler had sent
\* stays the only one, with the handler's status; an exception that is no
\* Exception (SystemExit) is not caught, and a handler that had not sent
\* gets the forced empty response.
C2_RaiseAnswered ==
    \A c \in Conns :
        (Ended(c) /\ hend[c] \in {"Exception", "BaseException"}) =>
            /\ Len(wire[c]) = 1
            /\ (\E i \in 1..Len(ops[c]) : ops[c][i][2]) <=> wire[c][1].by = "handler"
            /\ (hend[c] = "Exception" /\ wire[c][1].by # "handler") =>
                  /\ wire[c][1].by = "handler_error"
                  /\ wire[c][1].status = 500
                  /\ wire[c][1].body = Utf8(INTERNAL_SERVER_ERROR)
                  /\ wire[c][1].chunks # <<>> =>
                        wire[c][1].chunks[1] = StatusChunk(500, "Internal Server Error")
            /\ (hend[c] = "BaseException" /\ wire[c][1].by # "handler") =>
                  /\ wire[c][1].by = "fallback"
                  /\ wire[c][1].body = <<>>

\* a handler raised without sending and the client got the 500
C2_Witness ==
    \E c \in Conns :
        /\ pc[c] = "done" /\ hend[c] = "Exception"
        /\ Len(wire[c]) = 1 /\ wire[c][1].by = "handler_error"
        /\ wire[c][1].complete /\ wire[c][1].status = 500

\* C3 as stated: every run of handle_request that is over has closed the
\* socket exactly once.
C3_ClosedOnEveryExit ==
    \A c \in Conns : Ended(c) => closes[c] = 1

\* C4: every response send wrote in full carries exactly one Connection
\* header, of value close, and exactly one Content-Length header, whose
\* value is the number of body bytes written, whatever the status, the
\* data and the headers the handler had set.
C4_Framing ==
    \A c \in Conns : \A i \in 1..Len(wire[c]) :
        wire[c][i].complete =>
            /\ Cardinality(HeaderChunks(wire[c][i], CONNECTION)) = 1
            /\ \A j \in HeaderChunks(wire[c][i], CONNECTION) :
                  wire[c][i].chunks[j].value = CLOSE
            /\ Cardinality(HeaderChunks(wire[c][i], CONTENT_LENGTH)) = 1
            /\ \A j \in HeaderChunks(wire[c][i], CONTENT_LENGTH) :
                  /\ ParseInt(wire[c][i].chunks[j].value).ok
                  /\ ParseInt(wire[c][i].chunks[j].value).v
                        = Len(BodyWritten(wire[c][i]))

\* a handler set Content-Length: 9 and then sent three bytes of text
C4_Witness ==
    \E c \in Conns :
        /\ ops[c] = <<<<"set_header", FALSE>>, <<"send", TRUE>>>>
        /\ Len(wire[c]) = 1 /\ wire[c][1].complete
        /\ wire[c][1].chunks[2].name = CONTENT_LENGTH
        /\ BodyWritten(wire[c][1]) = <<104, 195, 169>>

\* C5: once a Response has sent = true, no step writes to its socket: a
\* later send or json emits nothing.
C5_SendOnce ==
    [][\A c \in Conns : res[c].sent => wire'[c] = wire[c]]_vars

\* a handler sent and then called json on the same Response
C5_Witness ==
    \E c \in Conns :
        /\ ops[c] = <<<<"send", TRUE>>, <<"json", FALSE>>>>
        /\ res[c].sent /\ Len(wire[c]) = 1

\* the routes of the request's method whose template matches its path
Matching(c) ==
    {j \in 1..Len(RouteList(routes, req[c].method)) :
        RegexMatch(RouteList(routes, req[c].method)[j].regex, req[c].path).ok}

\* C6: the handler called is the one registered first among the routes of
\* the request's method that match the path (handlers are numbered in the
\* order of the add_route calls).
C6_FirstRegisteredWins ==
    \A c \in Conns :
        invoked[c] # <<>> =>
            /\ Len(invoked[c]) = 1
            /\ \E j \in Matching(c) :
                  RouteList(routes, req[c].method)[j].handler = invoked[c][1]
            /\ \A j \in Matching(c) :
                  RouteList(routes, req[c].method)[j].handler >= invoked[c][1]

\* two routes with different templates matched and the first was called
C6_Witness ==
    \E c \in Conns :
        /\ invoked[c] = <<1>>
        /\ Cardinality(Matching(c)) = 2
        /\ RouteList(routes, req[c].method)[1].template
              # RouteList(routes, req[c].method)[2].template

\* C7: a request of method OPTIONS gets one response, of status 200 with
\* the two fixed Access-Control headers, whatever the path, the routes and
\* the static mappings; no file is opened and no handler is called.
C7_Preflight ==
    \A c \in Conns :
        (built[c] /\ req[c].method = OPTIONS) =>
            /\ invoked[c] = <<>>
            /\ opened[c] = <<>>
            /\ Ended(c) =>
                  /\ Len(wire[c]) = 1
                  /\ wire[c][1].by = "preflight"
                  /\ wire[c][1].status = 200
                  /\ wire[c][1].complete =>
                        /\ wire[c][1].chunks[1] = StatusChunk(200, "OK")
                        /\ \E j \in HeaderChunks(wire[c][1], ALLOW_METHODS_NAME) :
                              wire[c][1].chunks[j].value = ALLOW_METHODS
                        /\ \E j \in HeaderChunks(wire[c][1], ALLOW_HEADERS_NAME) :
                              wire[c][1].chunks[j].value = CONTENT_TYPE

\* OPTIONS for a path that a static mapping holds a file for
C7_Witness ==
    \E c \in Conns :
        /\ pc[c] = "done" /\ req[c].method = OPTIONS /\ req[c].path = P_STATIC_A
        /\ static_routes # <<>>
        /\ Len(wire[c]) = 1 /\ wire[c][1].complete

\* the file the static stage looks for, for a path under a mapping
Target(c) ==
    StaticFilePath(static_routes[FirstPrefix(static_routes, req[c].path, 1)][1],
                   static_routes[FirstPrefix(static_routes, req[c].path, 1)][2],
                   req[c].path)

\* C8 as stated: a request other than OPTIONS under a static prefix whose
\* target file does not exist is answered by dynamic routing: by the
\* matching handler's run, or by the 404.
C8_MissingFallsThrough ==
    \A c \in Conns :
        (/\ built[c] /\ Ended(c) /\ req[c].method # OPTIONS
         /\ FirstPrefix(static_routes, req[c].path, 1) # 0
         /\ Resolve(Target(c)).err # "ok")
            => /\ Len(wire[c]) = 1
               /\ wire[c][1].by \in {"handler", "handler_error", "fallback", "not_found"}

\* the words of a line: the places where a run of non-blanks begins
WordStarts(s) ==
    {i \in 1..Len(s) : s[i] \notin Whitespace /\ (i = 1 \/ s[i - 1] \in Whitespace)}

\* C9: a request line that is empty or has not exactly three words ends
\* the thread at once: nothing is written, no Request or Response is built,
\* no handler is called, and the socket is closed.
C9_MalformedAborts ==
    \A c \in Conns :
        (/\ rline[c] # <<>>
         /\ rline[c][1].ok
         /\ Cardinality(WordStarts(rline[c][1].text)) # 3)
            => /\ pc[c] = "done"
               /\ closes[c] = 1
               /\ wire[c] = <<>>
               /\ ~built[c]
               /\ invoked[c] = <<>>
               /\ opened[c] = <<>>

\* a request line of four words was read
C9_Witness ==
    \E c \in Conns :
        /\ rline[c] # <<>> /\ rline[c][1].ok
        /\ Cardinality(WordStarts(rline[c][1].text)) = 4
        /\ pc[c] = "done" /\ closes[c] = 1

\* C10: what happens in the thread of one connection (an exception that
\* leaves handle_request, a failed write, a client that stops sending)
\* never ends the accept loop, and whatever the threads of the earlier
\* connections do, the listener accepts the next connection and the thread
\* of every connection whose own client keeps sending comes to its end,
\* as long as the server is not interrupted.
C10_WorkersIsolated ==
    /\ [][(\E c \in Conns : pc[c] # "idle" /\ pc'[c] # pc[c]) => server' = server]_vars
    /\ \A c \in Conns :
          (server = "listening" /\ accepted < c)
              ~> (accepted >= c \/ server = "closed")
    /\ \A c \in Conns :
          (pc[c] # "idle")
              ~> (Ended(c) \/ pc[c] = "blocked" \/ server = "closed")

\* the first thread died of an exception or waits for its client for
\* ever, and the second connection was accepted and answered in full
C10_Witness ==
    /\ server = "listening"
    /\ pc[1] \in {"died", "blocked"}
    /\ pc[2] = "done" /\ closes[2] = 1
    /\ Len(wire[2]) = 1 /\ wire[2][1].complete

\* the segments of a text that begins with a slash: what stands between
\* its slashes
RECURSIVE RefSegments(_, _)
RefSegments(s, cur) ==
    IF s = <<>> THEN <<cur>>
    ELSE IF Head(s) = "/" THEN <<cur>> \o RefSegments(Tail(s), <<>>)
    ELSE RefSegments(Tail(s), Append(cur, Head(s)))

\* a path without one trailing slash
RefTrimmed(p) == IF Len(p) >= 2 /\ p[Len(p)] = "/" THEN SubSeq(p, 1, Len(p) - 1) ELSE p

\* whether path segment v fits template segment u
RefFits(u, v) == IF u # <<>> /\ u[1] = ":" THEN v # <<>> ELSE u = v

\* the segment-wise reference: whether template t matches path p
RefMatchesSegments(ts, ps) ==
    /\ Len(ts) = Len(ps)
    /\ \A i \in 1..Len(ts) : RefFits(ts[i], ps[i])

RefMatches(t, p) ==
    /\ p # <<>> /\ p[1] = "/"
    /\ IF t = <<"/">> THEN p = <<"/">>
       ELSE RefMatchesSegments(RefSegments(Tail(t), <<>>),
                               RefSegments(Tail(RefTrimmed(p)), <<>>))

\* the bindings of the reference: name and path segment, in template order
RECURSIVE RefBindings(_, _)
RefBindings(ts, ps) ==
    IF ts = <<>> THEN <<>>
    ELSE (IF Head(ts) # <<>> /\ Head(ts)[1] = ":"
          THEN <<<<Tail(Head(ts)), Head(ps)>>>> ELSE <<>>)
         \o RefBindings(Tail(ts), Tail(ps))

RefParams(t, p) ==
    IF t = <<"/">> THEN <<>>
    ELSE RefBindings(RefSegments(Tail(t), <<>>), RefSegments(Tail(RefTrimmed(p)), <<>>))

\* the names of a template's placeholders are identifiers, each used once
RefNamed(ts) ==
    /\ \A i \in 1..Len(ts) :
          (ts[i] # <<>> /\ ts[i][1] = ":") =>
              /\ Len(ts[i]) >= 2
              /\ ts[i][2] \notin {"0", "1", "2", "3", "4", "5", "6", "7", "8", "9"}
    /\ \A i, j \in 1..Len(ts) :
          (i < j /\ ts[i] # <<>> /\ ts[i][1] = ":") => ts[i] # ts[j]

\* the request of connection c was looked up in the one route of GET
LookedUp(c) ==
    /\ built[c] /\ pc[c] \in {"handler", "done"}
    /\ GET \in DOMAIN routes /\ Len(routes[GET]) = 1

\* the lookup of connection c agrees with the reference
Agrees(c, t, p) ==
    /\ (invoked[c] # <<>>) <=> RefMatches(t, p)
    /\ (invoked[c] # <<>>) => req[c].params = RefParams(t, p)

NoOwnRoute(c) ==
    req[c].method \in DOMAIN routes =>
        \A j \in 1..Len(routes[req[c].method]) :
            ~RegexMatch(routes[req[c].method][j].regex, req[c].path).ok

\* a route registered under another method matches the path of c's request
OtherMethodMatches(c) ==
    \E m \in DOMAIN routes \ {req[c].method} : \E j \in 1..Len(routes[m]) :
        RegexMatch(routes[m][j].regex, req[c].path).ok

\* the static stage answered c's request, with a file or with its 500
StaticAnswered(c) ==
    \E i \in 1..Len(wire[c]) : wire[c][i].by \in {"static", "static_error"}

\* C12: a request other than OPTIONS that the static stage did not answer
\* and whose path matches no route of its own method gets the one response
\* 404 Not Found with the body "Not Found", and no handler is called, also
\* when a route of another method matches the path.
C12_NotFound ==
    \A c \in Conns :
        (/\ built[c] /\ Ended(c) /\ req[c].method # OPTIONS
         /\ ~StaticAnswered(c) /\ NoOwnRoute(c))
            => /\ invoked[c] = <<>>
               /\ Len(wire[c]) = 1
               /\ wire[c][1].by = "not_found"
               /\ wire[c][1].status = 404
               /\ wire[c][1].body = Utf8(NOT_FOUND)
               /\ wire[c][1].chunks # <<>> =>
                     wire[c][1].chunks[1] = StatusChunk(404, "Not Found")

\* POST for a path that only a route of GET matches was answered 404
C12_Witness ==
    \E c \in Conns :
        /\ pc[c] = "done" /\ req[c].method = POST
        /\ NoOwnRoute(c) /\ OtherMethodMatches(c)
        /\ Len(wire[c]) = 1 /\ wire[c][1].complete /\ wire[c][1].status = 404

\* the client of c got the 201 of create_data
Created(c) ==
    /\ pc[c] = "done" /\ Len(wire[c]) = 1
    /\ wire[c][1].complete /\ wire[c][1].status = 201

\* C13 as stated: the stored items carry the ids 1..k in order of insertion,
\* the id a client receives is the position of its item, and no two clients
\* receive the same id, under any interleaving of the threads.
C13_SequentialIds ==
    /\ \A i \in 1..Len(database) : database[i].id = i
    /\ \A c, d \in Conns :
          (c # d /\ Created(c) /\ Created(d)) => wire[c][1].body # wire[d][1].body

\* what parse_qs returned as a Python value: every name maps to a list
FormValue(d) == [i \in 1..Len(d) |-> <<d[i][1], [list |-> TRUE, v |-> d[i][2]]>>]

\* equality of two dicts of strings and lists of strings
SameDict(d, e) ==
    /\ Len(d) = Len(e)
    /\ \A i \in 1..Len(d) :
          /\ d[i][1] = e[i][1]
          /\ d[i][2].list = e[i][2].list
          /\ d[i][2].v = e[i][2].v

\* the request of c was built from a form
FormRead(c) == built[c] /\ req[c].body.kind = "form"

\* C14 as stated: Request.body of a form equals the query map of the same
\* text (the clients of SpecForm send the text of the query string as the
\* body), a name that occurs once mapping to the string itself.
C14_FormAsQuery ==
    \A c \in Conns : FormRead(c) => SameDict(FormValue(req[c].body.v), req[c].query)

\* a send of c began to write and one of its sendall calls failed
WriteFailed(c) == \E i \in 1..Len(wire[c]) : ~wire[c][i].complete

\* C15 as stated: after a write failed inside send, sent is true, nothing
\* more is written, and no exception leaves send whatever the socket raised:
\* no exception ends the thread, which closes the socket.
C15_SendFinalizesSilently ==
    \A c \in Conns :
        WriteFailed(c) =>
            /\ res[c].sent
            /\ Len(wire[c]) = 1
            /\ exc[c] = "none"
            /\ Ended(c) => closes[c] = 1

\* the static stage of c's request is over
PastStatic(c) == built[c] /\ pc[c] \in {"handler", "done", "died"}

\* the mappings whose prefix the path of c's request begins with
PrefixMatches(c) ==
    {i \in 1..Len(static_routes) :
        /\ Len(static_routes[i][1]) <= Len(req[c].path)
        /\ SubSeq(req[c].path, 1, Len(static_routes[i][1])) = static_routes[i][1]}

\* the first of them in registration order
FirstMapping(c) == CHOOSE i \in PrefixMatches(c) : \A j \in PrefixMatches(c) : i <= j

\* the file mapping i holds for the path of c's request
MappedFile(c, i) == StaticFilePath(static_routes[i][1], static_routes[i][2], req[c].path)

\* C16 as stated: only the first mapping in registration order whose prefix
\* matches is consulted, and when its file is missing the request goes to
\* dynamic routing (the handler's run or the 404), no later mapping being
\* tried even if it holds the file.
C16_FirstMappingAuthoritative ==
    \A c \in Conns :
        (PastStatic(c) /\ req[c].method # OPTIONS /\ PrefixMatches(c) # {})
            => /\ opened[c] = <<MappedFile(c, FirstMapping(c))>>
               /\ Resolve(MappedFile(c, FirstMapping(c))).err # "ok" =>
                     /\ ~StaticAnswered(c)
                     /\ invoked[c] # <<>> \/ (Len(wire[c]) = 1 /\ wire[c][1].by = "not_found")

\* the file the first matching mapping holds for c's request exists and
\* cannot be read
ReadFails(c) ==
    /\ PrefixMatches(c) # {}
    /\ Resolve(MappedFile(c, FirstMapping(c))).err = "ok"
    /\ ~Entry(Resolve(MappedFile(c, FirstMapping(c))).node).readable

\* C17: when the file under the matching prefix exists and open or read
\* raises an error other than FileNotFoundError, the one response is the
\* static stage's 500 whose body is "Error reading static file: " and the
\* error's text, no handler is called and no 404 is sent.
C17_ReadFailure500 ==
    \A c \in Conns :
        (PastStatic(c) /\ req[c].method # OPTIONS /\ ReadFails(c))
            => /\ Ended(c)
               /\ invoked[c] = <<>>
               /\ Len(wire[c]) = 1
               /\ wire[c][1].by = "static_error"
               /\ wire[c][1].status = 500
               /\ wire[c][1].body =
                     Utf8(ERROR_READING
                          \o ErrorText("PermissionError", MappedFile(c, FirstMapping(c))))
               /\ wire[c][1].complete => BodyWritten(wire[c][1]) = wire[c][1].body

\* the client that asked for the unreadable file got the 500 in full, while
\* a route matched the path
C17_Witness ==
    \E c \in Conns :
        /\ pc[c] = "done" /\ req[c].path = P_STATIC_LOCKED /\ ReadFails(c)
        /\ ~NoOwnRoute(c) /\ req[c].method \in DOMAIN routes
        /\ Len(wire[c]) = 1 /\ wire[c][1].complete /\ wire[c][1].status = 500

\* C18: once listen has been called, no step changes the route table or
\* the static mappings: not a step of handle_request on any path, and no
\* registration, all of which the application makes before listen.
C18_TablesFrozen ==
    [][server # "init" => (routes' = routes /\ static_routes' = static_routes)]_vars

\* with a route and a mapping registered, the listener accepted a client
\* and the handler of its request ran with a path parameter bound
C18_Witness ==
    /\ server = "listening" /\ static_routes # <<>> /\ NumRoutes > 0
    /\ \E c \in Conns : pc[c] = "done" /\ invoked[c] # <<>> /\ req[c].params # <<>>

\* the routes of the method of c's request that match its path
OwnMatches(c) ==
    IF req[c].method \in DOMAIN routes
    THEN {j \in 1..Len(routes[req[c].method]) :
             RegexMatch(routes[req[c].method][j].regex, req[c].path).ok}
    ELSE {}

\* the static stage answers c's request: a mapping's prefix matches and open
\* does not raise FileNotFoundError
StaticAnswers(c) ==
    /\ PrefixMatches(c) # {}
    /\ OpenRead(MappedFile(c, FirstMapping(c))).err # "FileNotFoundError"

\* C19: a connection's thread calls at most one handler, once, also when
\* several routes match and the first one's handler raised; it calls none
\* when the request is OPTIONS or the static stage answered it (with a file
\* or with its 500).
C19_OneHandler ==
    \A c \in Conns :
        /\ Len(invoked[c]) <= 1
        /\ (PastStatic(c) /\ (req[c].method = OPTIONS \/ StaticAnswers(c)))
              => invoked[c] = <<>>

\* two routes matched the path, the first one's handler raised, and the
\* thread ended having called that handler only
C19_Witness ==
    \E c \in Conns :
        /\ Ended(c) /\ hend[c] = "Exception"
        /\ Cardinality(OwnMatches(c)) = 2
        /\ invoked[c] = <<1>>

\* the path of c's request is the prefix of mapping i or continues it with
\* a new segment
UnderPrefix(c, i) ==
    \/ req[c].path = static_routes[i][1]
    \/ /\ Len(req[c].path) > Len(static_routes[i][1])
       /\ SubSeq(req[c].path, 1, Len(static_routes[i][1])) = static_routes[i][1]
       /\ req[c].path[Len(static_routes[i][1]) + 1] = "/"

\* the node file_path names lies in the directory of mapping i
InsideDirectory(file_path, i) ==
    /\ Resolve(file_path).err = "ok"
    /\ Len(Resolve(file_path).node) >= Len(Resolve(static_routes[i][2]).node)
    /\ SubSeq(Resolve(file_path).node, 1, Len(Resolve(static_routes[i][2]).node))
          = Resolve(static_routes[i][2]).node

\* the static stage sent a file to the client of c
FileSent(c) == \E i \in 1..Len(wire[c]) : wire[c][i].by = "static"

\* C20 as stated: whenever a mapping serves a file, the request's path lies
\* under the mapping's prefix at a segment boundary and the file sent lies
\* within the mapping's directory, also for paths with '..' segments and
\* for paths that only begin with the prefix's characters.
C20_ServedWithinDirectory ==
    \A c \in Conns :
        FileSent(c) =>
            /\ UnderPrefix(c, FirstMapping(c))
            /\ \A j \in 1..Len(opened[c]) : InsideDirectory(opened[c][j], FirstMapping(c))

====
